---- MODULE Spec2Model ----
(***************************************************************************)
(* Model of system_updater.py: a fixed list of update commands is run on a *)
(* ThreadPoolExecutor, the outcomes are collected as they complete, a      *)
(* report is assembled in list order, and the report is summarised by a    *)
(* remote API with a bounded retry loop.                                   *)
(*                                                                         *)
(* Text is modelled as a sequence of tokens (strings); the whitespace      *)
(* tokens are SP and NL, so that str.strip() and str.startswith() are      *)
(* computed, not assumed.                                                  *)
(***************************************************************************)
EXTENDS Integers, Sequences, FiniteSets, TLC

VARIABLES
    tasks,        \* UPDATE_COMMANDS: the list of command configs of this run
    environ,      \* os.environ, as far as the program reads it
    pc,           \* position of the main thread
    fstate,       \* per submitted task: state of its future / work item
    fresult,      \* per task: what future.result() gives once finished
    procs,        \* per task: the OS processes spawned for it still alive
    ran,          \* per task: what subprocess.run did, once it has returned
    nthreads,     \* worker threads the executor has started (Thread.start)
    idle,         \* permits of the executor's _idle_semaphore
    announced,    \* worker threads not running a work item that have
                  \* released a permit since they last ran one
    calls,        \* history, per task: calls of run_command made for it
    futures,      \* run_all_updates: futures -> desc (by task index)
    results,      \* run_all_updates: results, desc -> (success, output)
    inserting,    \* futures whose loop body (lines 154-167) is under way
    inserted,     \* history, per key of results: the values stored under it
    yielded,      \* futures whose loop body has run
    reordered,    \* history: some future was yielded before an earlier one
    advanced,     \* progress.advance calls on the overall task
    report,       \* run_all_updates: report_lines, once built
    update_output,\* main: the text run_all_updates returned
    attempt,      \* generate_summary: loop variable of range(3)
    last_error,   \* generate_summary: last_error
    log,          \* generate_summary: the requests made so far, each with
                  \* how it ended and whether the reply met the contract
    sleeps,       \* generate_summary: time.sleep(1) calls made so far
    summary,      \* main: summary
    printed,      \* what main has printed after run_all_updates
    exit_code     \* process exit status, -1 while running, -2 when ended
                  \* by the signal

vars == <<tasks, environ, pc, fstate, fresult, procs, ran, nthreads, idle,
          announced, calls,
          futures, results, inserting, inserted, yielded, reordered, advanced,
          report, update_output, attempt, last_error, log, sleeps, summary,
          printed, exit_code>>

inputVars == <<tasks, environ>>
poolVars == <<fstate, fresult, procs, ran, nthreads, idle, announced, calls>>
collectVars == <<futures, results, inserting, inserted, yielded, reordered,
                 advanced>>
reportVars == <<report, update_output>>
summVars == <<attempt, last_error, log, sleeps, summary>>
mainVars == <<printed, exit_code>>

(***************************************************************************)
(* Program constants                                                       *)
(***************************************************************************)
MAX_WORKERS == 6
MAX_ATTEMPTS == 3

(***************************************************************************)
(* Bounds of the model                                                     *)
(***************************************************************************)
MaxTasks == 2
PoolExtra == 1
\* SIGINTs delivered to one run while signal_handler is installed
MaxSigints == 3

(***************************************************************************)
(* Text                                                                    *)
(***************************************************************************)
SP == " "
NL == "\n"
CROSS == "[x]"
CHECK == "[v]"
WARN == "[!]"
\* rich console markup: an opening and a closing tag
TAG_OPEN == "[bold]"
TAG_CLOSE == "[/bold]"
\* The value None, which is no text
None == <<"<None>">>
\* A byte that is no valid UTF-8
BAD == "\\xff"

IsSpace(c) == c \in {SP, NL}

RECURSIVE LStrip(_)
LStrip(s) == IF s # <<>> /\ IsSpace(Head(s)) THEN LStrip(Tail(s)) ELSE s

RECURSIVE RStrip(_)
RStrip(s) ==
    IF s # <<>> /\ IsSpace(s[Len(s)]) THEN RStrip(SubSeq(s, 1, Len(s) - 1)) ELSE s

Strip(s) == RStrip(LStrip(s))

StartsWith(s, c) == s # <<>> /\ Head(s) = c

RECURSIVE IsPrefix(_, _)
IsPrefix(p, s) ==
    \/ p = <<>>
    \/ /\ s # <<>>
       /\ Head(p) = Head(s)
       /\ IsPrefix(Tail(p), Tail(s))

RECURSIVE Contains(_, _)
Contains(s, p) ==
    \/ IsPrefix(p, s)
    \/ s # <<>> /\ Contains(Tail(s), p)

\* rich renders a str with markup: a closing tag that closes no open tag
\* raises MarkupError.  depth is the number of tags open so far.
RECURSIVE UnmatchedClose(_, _)
UnmatchedClose(s, depth) ==
    IF s = <<>> THEN FALSE
    ELSE IF Head(s) = TAG_CLOSE
         THEN depth = 0 \/ UnmatchedClose(Tail(s), depth - 1)
    ELSE IF Head(s) = TAG_OPEN THEN UnmatchedClose(Tail(s), depth + 1)
    ELSE UnmatchedClose(Tail(s), depth)

MarkupFails(text) == UnmatchedClose(text, 0)

(***************************************************************************)
(* Inputs: command configs, and what the external commands may do          *)
(***************************************************************************)
\* An entry of UPDATE_COMMANDS is a dict; a key may be absent.
HasKey(d, k) == k \in DOMAIN d

\* The configs a task list is drawn from.  "brew" is a compound command
\* whose shell forks children, "nvm" runs inside its shell, "sleep" prints
\* nothing and exits 0, "sleep &" puts a sleep in the background and exits
\* 0 at once; config "C" lacks "cmd" and "shell_source".
CommandPool ==
    << [cmd |-> "brew", desc |-> "B", shell_source |-> FALSE],
       [cmd |-> "nvm", desc |-> "A", shell_source |-> TRUE],
       [desc |-> "C"] >>

PoolDescs == <<"S1", "S2", "S3", "S4", "S5", "S6", "S7", "S8", "S9">>

RECURSIVE Injective(_)
Injective(s) ==
    \/ s = <<>>
    \/ /\ \A j \in 2..Len(s) : s[j] # s[1]
       /\ Injective(Tail(s))

\* Task lists of a full run: every list of at most MaxTasks distinct configs.
TaskLists ==
    { s \in UNION { [1..n -> { CommandPool[k] : k \in 1..Len(CommandPool) }]
                    : n \in 0..MaxTasks } : Injective(s) }

\* Task lists that exceed the worker bound: a background sleeper followed
\* by sleepers, MAX_WORKERS + PoolExtra tasks in all.
SleeperLists ==
    { [i \in 1..n |-> [cmd |-> (IF i = 1 THEN "sleep &" ELSE "sleep"),
                       desc |-> PoolDescs[i],
                       shell_source |-> FALSE]]
      : n \in {MAX_WORKERS + PoolExtra} }

\* What subprocess.run can meet with a command: the process exits with a
\* return code and the bytes of the two captured streams, the timeout
\* expires, or the process cannot be spawned (OSError).
ExitOf(rc, out, err) ==
    [kind |-> "exit", rc |-> rc, stdout |-> out, stderr |-> err, msg |-> ""]
TimeoutExpired ==
    [kind |-> "timeout", rc |-> 0, stdout |-> <<>>, stderr |-> <<>>, msg |-> ""]
SpawnError(m) ==
    [kind |-> "oserror", rc |-> 0, stdout |-> <<>>, stderr |-> <<>>, msg |-> m]
NotRun ==
    [kind |-> "none", rc |-> 0, stdout |-> <<>>, stderr |-> <<>>, msg |-> ""]

ExitResults ==
    { ExitOf(0, <<"out", NL>>, <<>>),
      ExitOf(0, <<"out ", TAG_CLOSE, NL>>, <<>>),
      ExitOf(0, <<>>, <<>>),
      ExitOf(1, <<"out", NL>>, <<SP, "err", NL>>),
      ExitOf(127, <<>>, <<"not found", NL>>),
      ExitOf(0, <<"out", BAD, NL>>, <<>>),
      ExitOf(1, <<>>, <<BAD, "err", NL>>) }

Behaviours(cmd) ==
    IF cmd \in {"sleep", "sleep &"}
    THEN { ExitOf(0, <<>>, <<>>) }
    ELSE ExitResults \cup {TimeoutExpired, SpawnError("ENOENT")}

\* Every command is handed to a shell (shell=True, lines 94-111), so a
\* command whose binary is missing is met by the shell, which prints "not
\* found" on stderr and exits with status 127; subprocess.run raises
\* OSError only when the shell itself cannot be executed.  In both cases
\* the command of the task was never started.
CommandNotStarted(pr) ==
    \/ pr.kind = "oserror"
    \/ pr.kind = "exit" /\ pr.rc = 127 /\ pr.stderr = <<"not found", NL>>

\* Whether the shell of a command has started a process of its own that is
\* still running.  In both modes the command is run by a shell (lines
\* 94-111), which may start processes; "sleep" starts none, "sleep &"
\* always starts one.
Forks(cmd) ==
    IF cmd \in {"brew", "nvm"} THEN BOOLEAN
    ELSE IF cmd = "sleep &" THEN {TRUE}
    ELSE {FALSE}

(***************************************************************************)
(* run_command                                                             *)
(***************************************************************************)
Returned(success, output, desc) ==
    [raised |-> FALSE, exc |-> "", success |-> success, output |-> output,
     desc |-> desc]
Raised(e) ==
    [raised |-> TRUE, exc |-> e, success |-> FALSE, output |-> <<>>,
     desc |-> ""]
NoResult == Raised("pending")

\* cmd_config.get("shell_source", True)
needs_shell(cmd_config) ==
    IF HasKey(cmd_config, "shell_source") THEN cmd_config.shell_source ELSE TRUE

\* f"{result.stdout}\n{result.stderr}".strip()
CombinedOutput(pr) == Strip(pr.stdout \o <<NL>> \o pr.stderr)

TimedOutMessage == <<CROSS, " Timed out after 300s">>
ExecutionFailedMessage(m) == <<CROSS, " Execution failed: ", m>>

\* text=True: subprocess.run decodes the captured bytes of a stream once
\* the process has ended, and raises UnicodeDecodeError on a byte that is
\* no UTF-8.
Decodable(bytes) == \A k \in 1..Len(bytes) : bytes[k] # BAD
DecodeErrorText == "'utf-8' codec can't decode byte 0xff"

\* lines 113-116 for a process that exited, or line 121 when decoding its
\* output raised
ExitOutcome(pr, desc) ==
    IF Decodable(pr.stdout) /\ Decodable(pr.stderr)
    THEN Returned(pr.rc = 0, CombinedOutput(pr), desc)
    ELSE Returned(FALSE, ExecutionFailedMessage(DecodeErrorText), desc)

\* run_command without its except clause for TimeoutExpired
run_command_uncaught(cmd_config, pr) ==
    IF ~HasKey(cmd_config, "cmd") THEN Raised("'cmd'")
    ELSE IF ~HasKey(cmd_config, "desc") THEN Raised("'desc'")
    ELSE CASE pr.kind = "exit" -> ExitOutcome(pr, cmd_config.desc)
           [] pr.kind = "timeout" -> Raised("TimeoutExpired")
           [] pr.kind = "oserror" ->
                Returned(FALSE, ExecutionFailedMessage(pr.msg), cmd_config.desc)

\* The value run_command returns, or the exception it raises, when
\* subprocess.run behaves as pr.
run_command(cmd_config, pr) ==
    IF ~HasKey(cmd_config, "cmd") THEN Raised("'cmd'")
    ELSE IF ~HasKey(cmd_config, "desc") THEN Raised("'desc'")
    ELSE CASE pr.kind = "exit" -> ExitOutcome(pr, cmd_config.desc)
           [] pr.kind = "timeout" ->
                Returned(FALSE, TimedOutMessage, cmd_config.desc)
           [] pr.kind = "oserror" ->
                Returned(FALSE, ExecutionFailedMessage(pr.msg), cmd_config.desc)

\* run_command raises before it reaches subprocess.run
RaisesEarly(cmd_config) ==
    ~HasKey(cmd_config, "cmd") \/ ~HasKey(cmd_config, "desc")

CmdOf(cmd_config) == IF HasKey(cmd_config, "cmd") THEN cmd_config.cmd ELSE ""

(***************************************************************************)
(* The worker pool: ThreadPoolExecutor(max_workers=MAX_WORKERS)            *)
(***************************************************************************)
N == Len(tasks)
Queued == { i \in 1..N : fstate[i] = "queued" }
\* The work items a worker thread holds: run_command has been called for
\* them ("called") and has a process running ("running").
Running == { i \in 1..N : fstate[i] \in {"called", "running"} }
Finished == { i \in 1..N : fstate[i] = "finished" }
Submitted == DOMAIN futures
\* The worker threads run from the first submit until the with block has
\* joined them or the process ends: also while SystemExit unwinds the main
\* thread and while the interpreter shuts down.
InPool ==
    pc \in {"submit", "adjust", "record", "collect", "unwinding",
            "finalizing", "exiting"}

\* executor.submit, second half (_adjust_thread_count): a worker thread
\* is started unless a permit of the idle semaphore can be taken or
\* max_workers threads exist already.
SpawnAlways == {nthreads + 1}

SpawnChoices ==
    IF idle > 0 THEN {nthreads}
    ELSE IF nthreads < MAX_WORKERS THEN {nthreads + 1}
    ELSE {nthreads}

\* lines 148-149, executor.submit, first half: the work item of the next
\* config is put on the queue, where a worker thread can take it at once.
SubmitPut ==
    /\ pc = "submit"
    /\ Cardinality(Submitted) < N
    /\ fstate' = [fstate EXCEPT ![Cardinality(Submitted) + 1] = "queued"]
    /\ pc' = "adjust"
    /\ UNCHANGED <<inputVars, fresult, procs, ran, nthreads, idle, announced,
                   calls, collectVars, reportVars, summVars, mainVars>>

\* executor.submit, second half (_adjust_thread_count): a permit is taken
\* or a worker thread is started, which can take work items from then on.
SubmitAdjust ==
    /\ pc = "adjust"
    /\ \E t \in SpawnChoices : nthreads' = t
    /\ idle' = IF idle > 0 THEN idle - 1 ELSE idle
    /\ pc' = "record"
    /\ UNCHANGED <<inputVars, fstate, fresult, procs, ran, announced, calls,
                   collectVars, reportVars, summVars, mainVars>>

\* line 150: executor.submit has returned, the future is recorded under
\* the desc of its config.
SubmitRecord ==
    /\ pc = "record"
    /\ LET i == Cardinality(Submitted) + 1 IN
         futures' = [j \in Submitted \cup {i} |->
                       IF j = i THEN tasks[i].desc ELSE futures[j]]
    /\ pc' = "submit"
    /\ UNCHANGED <<inputVars, poolVars, results,
                   inserting, inserted, yielded, reordered, advanced,
                   reportVars, summVars, mainVars>>

\* line 153: all configs are submitted, as_completed starts.  Only submit
\* reads the idle semaphore: once no submit can follow, its count is no
\* longer part of the state.
StartCollect ==
    /\ pc = "submit"
    /\ Cardinality(Submitted) = N
    /\ pc' = "collect"
    /\ idle' = 0
    /\ announced' = 0
    /\ UNCHANGED <<inputVars, fstate, fresult, procs, ran, nthreads, calls,
                   collectVars, reportVars, summVars, mainVars>>

\* A free worker thread takes the oldest work item off the queue and calls
\* run_command for it.
WorkerTake ==
    /\ InPool
    /\ Queued # {}
    /\ Cardinality(Running) < nthreads
    /\ LET i == CHOOSE q \in Queued : \A r \in Queued : q <= r
       IN  /\ fstate' = [fstate EXCEPT ![i] = "called"]
           /\ calls' = [calls EXCEPT ![i] = calls[i] + 1]
           /\ \E a \in {announced - 1, announced} :
                 /\ a >= 0
                 /\ a <= nthreads - Cardinality(Running) - 1
                 /\ announced' = a
    /\ UNCHANGED <<inputVars, pc, fresult, procs, ran, nthreads, idle,
                   collectVars, reportVars, summVars, mainVars>>

\* lines 81-111: a run_command call that has been made raises at once
\* (line 81), fails to spawn its shell, or leaves a process
\* running.
WorkerSpawn(i) ==
    /\ InPool
    /\ fstate[i] = "called"
    /\ LET cfg == tasks[i]
       IN  \/ /\ RaisesEarly(cfg)
              /\ fstate' = [fstate EXCEPT ![i] = "finished"]
              /\ fresult' = [fresult EXCEPT ![i] = run_command(cfg, NotRun)]
              /\ UNCHANGED <<procs, ran>>
           \/ /\ ~RaisesEarly(cfg)
              /\ \E pr \in Behaviours(CmdOf(cfg)) :
                    /\ pr.kind = "oserror"
                    /\ fstate' = [fstate EXCEPT ![i] = "finished"]
                    /\ fresult' = [fresult EXCEPT ![i] = run_command(cfg, pr)]
                    /\ ran' = [ran EXCEPT ![i] = pr]
              /\ UNCHANGED procs
           \/ /\ ~RaisesEarly(cfg)
              /\ fstate' = [fstate EXCEPT ![i] = "running"]
              /\ \E f \in Forks(CmdOf(cfg)) :
                    procs' = [procs EXCEPT ![i] =
                                IF f THEN {"shell", "child"} ELSE {"shell"}]
              /\ UNCHANGED <<fresult, ran>>
    /\ UNCHANGED <<inputVars, pc, nthreads, idle, announced, calls,
                   collectVars, reportVars, summVars, mainVars>>

\* A worker thread that runs no work item releases a permit of the idle
\* semaphore, once: after it has finished a work item, or when it has found
\* the queue empty; a work item may have been queued since.  The release
\* is recorded while a submit can still follow it.
WorkerIdle ==
    /\ pc \in {"submit", "adjust", "record"}
    /\ announced < nthreads - Cardinality(Running)
    /\ idle' = idle + 1
    /\ announced' = announced + 1
    /\ UNCHANGED <<inputVars, pc, fstate, fresult, procs, ran, nthreads,
                   calls, collectVars, reportVars, summVars, mainVars>>

\* What subprocess.run leaves alive: the shell it spawned has exited or, on
\* a timeout, has been killed and reaped; a process the shell started is
\* not touched.
ProcsAfter(alive, pr) == alive \ {"shell"}

\* subprocess.run returns or raises for a process it has started (lines
\* 94-121): the process exited and its output was decoded or failed to
\* decode, or the timeout expired.
WorkerFinish(i) ==
    /\ InPool
    /\ fstate[i] = "running"
    /\ \E pr \in Behaviours(CmdOf(tasks[i])) :
          /\ pr.kind \in {"exit", "timeout"}
          /\ fresult' = [fresult EXCEPT ![i] = run_command(tasks[i], pr)]
          /\ procs' = [procs EXCEPT ![i] = ProcsAfter(procs[i], pr)]
          /\ ran' = [ran EXCEPT ![i] = pr]
    /\ fstate' = [fstate EXCEPT ![i] = "finished"]
    /\ UNCHANGED <<inputVars, pc, nthreads, idle, announced, calls,
                   collectVars, reportVars, summVars, mainVars>>

\* One process ends by itself: a process the shell of a command started,
\* at any time, or a shell no subprocess.run waits for any more because the
\* program is ending or has ended.
ProcessExit(i) ==
    /\ \E p \in procs[i] :
          /\ p = "child" \/ fstate[i] # "running"
          /\ procs' = [procs EXCEPT ![i] = procs[i] \ {p}]
    /\ UNCHANGED <<inputVars, pc, fstate, fresult, ran, nthreads, idle,
                   announced, calls,
                   collectVars, reportVars, summVars, mainVars>>

\* results is a dict keyed by desc: a function on the keys it holds.
\* k in d
HasItem(d, k) == k \in DOMAIN d
\* d[k]
GetItem(d, k) == d[k]
\* d[k] = v
SetItem(d, k, v) == [x \in DOMAIN d \cup {k} |-> IF x = k THEN v ELSE d[x]]

Outcome(success, output) == [success |-> success, output |-> output]

\* lines 155-164: the entry recorded for a future that has completed
CollectedOutcome(r) ==
    IF r.raised
    THEN Outcome(FALSE, <<"Exception: ", r.exc>>)
    ELSE Outcome(r.success, r.output)

\* The history of a dict after d[k] = v: v is added to what was stored
\* under k before.
Stored(h, k, v) ==
    [x \in DOMAIN h \cup {k} |->
        IF x = k THEN Append((IF x \in DOMAIN h THEN h[x] ELSE <<>>), v)
        ELSE h[x]]

\* The loop body run for every completed future by the thread that
\* completed it, not by the one loop of the main thread
TakeCompletedAnyThread(i) ==
    /\ pc = "collect"
    /\ i \in Submitted
    /\ i \notin yielded
    /\ i \notin inserting
    /\ fstate[i] = "finished"
    /\ inserting' = inserting \cup {i}
    /\ UNCHANGED <<inputVars, pc, poolVars, futures, results, inserted,
                   yielded, reordered, advanced, reportVars, summVars,
                   mainVars>>

\* A loop that hands out a completed future whether or not its body has
\* run already
TakeCompletedAgain(i) ==
    /\ pc = "collect"
    /\ i \in Submitted
    /\ inserting = {}
    /\ fstate[i] = "finished"
    /\ inserting' = inserting \cup {i}
    /\ UNCHANGED <<inputVars, pc, poolVars, futures, results, inserted,
                   yielded, reordered, advanced, reportVars, summVars,
                   mainVars>>

\* lines 153-154: as_completed hands a completed future to the loop body,
\* once the body of the previous one has ended.
TakeCompleted(i) ==
    /\ pc = "collect"
    /\ i \in Submitted
    /\ i \notin yielded
    /\ inserting = {}
    /\ fstate[i] = "finished"
    /\ inserting' = inserting \cup {i}
    /\ UNCHANGED <<inputVars, pc, poolVars, futures, results, inserted,
                   yielded, reordered, advanced, reportVars, summVars,
                   mainVars>>

\* The loop body keyed by the variable the submit loop left behind
\* (config["desc"]) instead of futures[future]
CollectStaleConfig(i) ==
    /\ pc = "collect"
    /\ i \in inserting
    /\ results' = SetItem(results, tasks[N].desc, CollectedOutcome(fresult[i]))
    /\ inserted' = Stored(inserted, tasks[N].desc, CollectedOutcome(fresult[i]))
    /\ inserting' = inserting \ {i}
    /\ yielded' = yielded \cup {i}
    /\ reordered' = (reordered \/ \E j \in 1..(i - 1) : j \notin yielded)
    /\ advanced' = advanced + 1
    /\ UNCHANGED <<inputVars, pc, poolVars, futures, reportVars, summVars,
                   mainVars>>

\* The loop body with an except clause that reports the error and records
\* nothing
CollectNoRecordOnError(i) ==
    /\ pc = "collect"
    /\ i \in inserting
    /\ results' = IF fresult[i].raised THEN results
                  ELSE SetItem(results, futures[i], CollectedOutcome(fresult[i]))
    /\ inserted' = IF fresult[i].raised THEN inserted
                   ELSE Stored(inserted, futures[i], CollectedOutcome(fresult[i]))
    /\ inserting' = inserting \ {i}
    /\ yielded' = yielded \cup {i}
    /\ reordered' = (reordered \/ \E j \in 1..(i - 1) : j \notin yielded)
    /\ advanced' = advanced + 1
    /\ UNCHANGED <<inputVars, pc, poolVars, futures, reportVars, summVars,
                   mainVars>>

\* lines 155-167: the body of the as_completed loop for one future
Collect(i) ==
    /\ pc = "collect"
    /\ i \in inserting
    /\ results' = SetItem(results, futures[i], CollectedOutcome(fresult[i]))
    /\ inserted' = Stored(inserted, futures[i], CollectedOutcome(fresult[i]))
    /\ inserting' = inserting \ {i}
    /\ yielded' = yielded \cup {i}
    /\ reordered' = (reordered \/ \E j \in 1..(i - 1) : j \notin yielded)
    /\ advanced' = advanced + 1
    /\ UNCHANGED <<inputVars, pc, poolVars, futures, reportVars, summVars,
                   mainVars>>

\* The report is started without waiting for the outstanding futures
ShutdownEarly ==
    /\ pc = "collect"
    /\ pc' = "report"
    /\ nthreads' = 0
    /\ idle' = 0
    /\ announced' = 0
    /\ UNCHANGED <<inputVars, fstate, fresult, procs, ran, calls, collectVars,
                   reportVars, summVars, mainVars>>

\* lines 147/167: as_completed is exhausted and the with block of the
\* executor is left, which joins the worker threads: they end.
Shutdown ==
    /\ pc = "collect"
    /\ yielded = Submitted
    /\ inserting = {}
    /\ Queued = {} /\ Running = {}
    /\ pc' = "report"
    /\ nthreads' = 0
    /\ idle' = 0
    /\ announced' = 0
    /\ UNCHANGED <<inputVars, fstate, fresult, procs, ran, calls, collectVars,
                   reportVars, summVars, mainVars>>

(***************************************************************************)
(* The report (lines 169-191)                                              *)
(***************************************************************************)
\* total_time as printed by f"{total_time:.1f}"
ElapsedTexts == {"0.1", "0.2"}

ReportHeader(total) ==
    << <<"SYSTEM UPDATE REPORT">>,
       <<"=*60">>,
       <<"Total execution time: ", total, " seconds">>,
       <<>> >>

\* Entries only for the commands that succeeded
EntryLinesSuccessOnly(config, res) ==
    IF ~HasItem(res, config.desc) \/ ~GetItem(res, config.desc).success
    THEN <<>>
    ELSE << <<CHECK, SP, config.desc, ":">>,
            <<"-*len", config.desc>>,
            GetItem(res, config.desc).output,
            <<>> >>

\* lines 181-189: the lines of one config, none when results has no entry
EntryLines(config, res) ==
    IF ~HasItem(res, config.desc) THEN <<>>
    ELSE LET success == GetItem(res, config.desc).success
             output == GetItem(res, config.desc).output
         IN  << <<(IF success THEN CHECK ELSE CROSS), SP, config.desc, ":">>,
                <<"-*len", config.desc>>,
                (IF Strip(output) # <<>> THEN output ELSE <<"(No output)">>) >>
             \o (IF ~success THEN << <<WARN, " Command failed">> >> ELSE <<>>)
             \o << <<>> >>

\* The entries appended while iterating over the configs back to front
RECURSIVE EntriesBackToFront(_, _)
EntriesBackToFront(configs, res) ==
    IF configs = <<>> THEN <<>>
    ELSE EntriesBackToFront(Tail(configs), res) \o EntryLines(Head(configs), res)

RECURSIVE EntriesFrontToBack(_, _)
EntriesFrontToBack(configs, res) ==
    IF configs = <<>> THEN <<>>
    ELSE EntryLines(Head(configs), res) \o EntriesFrontToBack(Tail(configs), res)

\* The loop of lines 179-189 following the order in which the entries
\* arrived in results instead of the order of UPDATE_COMMANDS
ReportBodyAsCompleted(configs, res) ==
    IF reordered THEN EntriesBackToFront(configs, res)
    ELSE EntriesFrontToBack(configs, res)

\* lines 179-189
RECURSIVE ReportBody(_, _)
ReportBody(configs, res) ==
    IF configs = <<>> THEN <<>>
    ELSE EntryLines(Head(configs), res) \o ReportBody(Tail(configs), res)

ReportLines(configs, res, total) == ReportHeader(total) \o ReportBody(configs, res)

\* "\n".join(report_lines)
RECURSIVE JoinLines(_)
JoinLines(lines) ==
    IF lines = <<>> THEN <<>>
    ELSE IF Len(lines) = 1 THEN Head(lines)
    ELSE Head(lines) \o <<NL>> \o JoinLines(Tail(lines))

BuildReport ==
    /\ pc = "report"
    /\ \E total \in ElapsedTexts : report' = ReportLines(tasks, results, total)
    /\ update_output' = JoinLines(report')
    /\ pc' = "summarize"
    /\ UNCHANGED <<inputVars, poolVars, collectVars, summVars, mainVars>>

(***************************************************************************)
(* generate_summary (lines 194-243)                                        *)
(***************************************************************************)
EmptyDict == <<>>

Environs ==
    << [HOME |-> "/root"],
       [HOME |-> "/root", GEMINI_API_KEY |-> ""],
       [HOME |-> "/root", GEMINI_API_KEY |-> "key"] >>

\* api_key is None
KeyMissingNoneOnly(env) == ~HasKey(env, "GEMINI_API_KEY")

\* not os.environ.get("GEMINI_API_KEY")
KeyMissing(env) == ~HasKey(env, "GEMINI_API_KEY") \/ env.GEMINI_API_KEY = ""

MissingKeyMessage ==
    <<CROSS, " Error: GEMINI_API_KEY environment variable is not set">>
FailedSummaryMessage(err) == <<CROSS, " Failed to generate summary: ", err>>
NoSummaryText == <<"No summary generated">>

\* What one urlopen call can meet: an exception (URLError, HTTPError,
\* timeout), or a response with a status and a body that is JSON or not.
NetError(m) == [exc |-> m, status |-> 0, json |-> FALSE, data |-> EmptyDict]
Http(status, data) == [exc |-> "", status |-> status, json |-> TRUE, data |-> data]
HttpGarbage(status) == [exc |-> "", status |-> status, json |-> FALSE, data |-> EmptyDict]

WellFormed(text) ==
    [candidates |-> << [content |-> [parts |-> << [text |-> text] >>]] >>]

Responses ==
    << NetError("URLError"),
       Http(204, EmptyDict),
       HttpGarbage(200),
       Http(200, WellFormed(<<"Summary">>)),
       Http(200, WellFormed(<<CROSS, " nothing was updated">>)),
       Http(200, WellFormed(<<CROSS, " nothing ", TAG_CLOSE, " was updated">>)),
       Http(200, WellFormed(None)),
       Http(200, EmptyDict),
       Http(200, [candidates |-> <<>>]),
       Http(200, [candidates |-> <<EmptyDict>>]),
       Http(200, [candidates |-> << [content |-> EmptyDict] >>]),
       Http(200, [candidates |-> << [content |-> [parts |-> <<>>]] >>]),
       Http(200, [candidates |-> << [content |-> [parts |-> <<EmptyDict>>]] >>]) >>

\* The wire contract of the service: status 200 and a JSON body that holds
\* a text under candidates[0].content.parts[0].text.
Conforms(resp) ==
    /\ resp.exc = ""
    /\ resp.status = 200
    /\ resp.json
    /\ HasKey(resp.data, "candidates")
    /\ Len(resp.data.candidates) > 0
    /\ HasKey(resp.data.candidates[1], "content")
    /\ HasKey(resp.data.candidates[1].content, "parts")
    /\ Len(resp.data.candidates[1].content.parts) > 0
    /\ HasKey(resp.data.candidates[1].content.parts[1], "text")
    /\ resp.data.candidates[1].content.parts[1].text # None

\* The text a reply carries under the contract, none if it does not conform.
ServedText(resp) ==
    IF Conforms(resp) THEN resp.data.candidates[1].content.parts[1].text
    ELSE <<>>

\* One request as the log keeps it.
Logged(result, resp) ==
    [result |-> result, conforms |-> Conforms(resp), served |-> ServedText(resp)]

Return(text) == [kind |-> "return", text |-> text, err |-> ""]
Raise(err) == [kind |-> "raise", text |-> <<>>, err |-> err]
FallThrough == [kind |-> "next", text |-> <<>>, err |-> ""]

\* d.get(k, default)
Get(d, k, default) == IF HasKey(d, k) THEN d[k] ELSE default

\* lines 233-238: the chain of .get and [0] on the decoded body
ExtractText(data) ==
    LET candidates == Get(data, "candidates", <<EmptyDict>>) IN
    IF Len(candidates) = 0 THEN Raise("list index out of range")
    ELSE LET parts == Get(Get(candidates[1], "content", EmptyDict),
                          "parts", <<EmptyDict>>) IN
         IF Len(parts) = 0 THEN Raise("list index out of range")
         ELSE Return(Get(parts[1], "text", NoSummaryText))

\* lines 226-240: one pass through the body of the retry loop
TryOnce(resp) ==
    IF resp.exc # "" THEN Raise(resp.exc)
    ELSE IF resp.status # 200 THEN FallThrough
    ELSE IF ~resp.json THEN Raise("JSONDecodeError")
    ELSE ExtractText(resp.data)

\* lines 196-224
GenerateSummary ==
    /\ pc = "summarize"
    /\ IF KeyMissing(environ)
       THEN /\ summary' = MissingKeyMessage
            /\ pc' = "print"
       ELSE /\ pc' = "attempt"
            /\ UNCHANGED summary
    /\ UNCHANGED <<inputVars, poolVars, collectVars, reportVars, attempt,
                   last_error, log, sleeps, mainVars>>

\* One request of a loop that stores the text and goes on to the next
\* iteration instead of returning
AttemptKeepsGoing ==
    /\ pc = "attempt"
    /\ attempt < MAX_ATTEMPTS
    /\ \E k \in 1..Len(Responses) :
         LET r == TryOnce(Responses[k]) IN
           /\ log' = Append(log, Logged(r.kind, Responses[k]))
           /\ CASE r.kind = "return" ->
                     /\ summary' = r.text
                     /\ attempt' = attempt + 1
                     /\ UNCHANGED <<pc, last_error>>
                [] r.kind = "raise" ->
                     /\ last_error' = r.err
                     /\ pc' = "sleep"
                     /\ UNCHANGED <<attempt, summary>>
                [] r.kind = "next" ->
                     /\ attempt' = attempt + 1
                     /\ UNCHANGED <<pc, last_error, summary>>
    /\ UNCHANGED <<inputVars, poolVars, collectVars, reportVars, sleeps,
                   mainVars>>

\* lines 225-240: one request
Attempt ==
    /\ pc = "attempt"
    /\ attempt < MAX_ATTEMPTS
    /\ \E k \in 1..Len(Responses) :
         LET r == TryOnce(Responses[k]) IN
           /\ log' = Append(log, Logged(r.kind, Responses[k]))
           /\ CASE r.kind = "return" ->
                     /\ summary' = r.text
                     /\ pc' = "print"
                     /\ UNCHANGED <<attempt, last_error>>
                [] r.kind = "raise" ->
                     /\ last_error' = r.err
                     /\ pc' = "sleep"
                     /\ UNCHANGED <<attempt, summary>>
                [] r.kind = "next" ->
                     /\ attempt' = attempt + 1
                     /\ UNCHANGED <<pc, last_error, summary>>
    /\ UNCHANGED <<inputVars, poolVars, collectVars, reportVars, sleeps,
                   mainVars>>

\* line 241: time.sleep(1), then the next iteration
Sleep ==
    /\ pc = "sleep"
    /\ sleeps' = sleeps + 1
    /\ attempt' = attempt + 1
    /\ pc' = "attempt"
    /\ UNCHANGED <<inputVars, poolVars, collectVars, reportVars,
                   last_error, log, summary, mainVars>>

\* line 243: range(3) is exhausted
GiveUp ==
    /\ pc = "attempt"
    /\ attempt >= MAX_ATTEMPTS
    /\ summary' = FailedSummaryMessage(last_error)
    /\ pc' = "print"
    /\ UNCHANGED <<inputVars, poolVars, collectVars, reportVars, attempt,
                   last_error, log, sleeps, mainVars>>

(***************************************************************************)
(* main (lines 251-268) and the SIGINT handler (lines 246-248)             *)
(***************************************************************************)
Show(what, text) == [what |-> what, text |-> text]

\* line 261: the branch main takes for the text generate_summary returned
SummaryBranch(s) ==
    IF ~StartsWith(s, CROSS) THEN "markdown" ELSE "fallback"

\* line 247: what the SIGINT handler prints
InterruptedMessage == <<NL, WARN, "  Interrupted by user. Exiting...">>

\* line 252: signal.signal installs signal_handler
InstallHandler ==
    /\ pc = "boot"
    /\ pc' = "start"
    /\ UNCHANGED <<inputVars, poolVars, collectVars, reportVars, summVars,
                   mainVars>>

\* lines 254-256 and 126-147: banner, progress bar, pool created
MainStart ==
    /\ pc = "start"
    /\ pc' = "submit"
    /\ UNCHANGED <<inputVars, poolVars, collectVars, reportVars, summVars,
                   mainVars>>

\* The values the variables of the main thread start with.
FreshCollect ==
    /\ futures' = <<>>
    /\ results' = <<>>
    /\ inserting' = {}
    /\ inserted' = <<>>
    /\ yielded' = {}
    /\ reordered' = FALSE
    /\ advanced' = 0

FreshMain ==
    /\ FreshCollect
    /\ report' = <<>>
    /\ update_output' = <<>>
    /\ attempt' = 0
    /\ last_error' = "Unknown error"
    /\ log' = <<>>
    /\ sleeps' = 0
    /\ summary' = <<>>

\* The frames of the main thread are abandoned and the executor with them:
\* nothing of the pool is read any more.
PoolGone ==
    /\ fstate' = [i \in 1..N |-> "new"]
    /\ fresult' = [i \in 1..N |-> NoResult]
    /\ ran' = [i \in 1..N |-> NotRun]
    /\ nthreads' = 0
    /\ idle' = 0
    /\ announced' = 0
    /\ calls' = [i \in 1..N |-> 0]

\* The main thread has left main with SystemExit or with an exception no
\* frame catches: the interpreter starts to shut down, signal_handler
\* still installed, and the process has not ended yet.
Leaving(at) ==
    /\ pc' = at
    /\ PoolGone

\* The process has ended: what remains is what it printed, its exit status
\* and the OS processes it left behind.
Exited(at, code) ==
    /\ pc' = at
    /\ exit_code' = code
    /\ PoolGone

\* An exception no frame catches: traceback, and the interpreter shuts
\* down to end with status 1.
Crashed ==
    /\ FreshMain
    /\ Leaving("crashing")
    /\ UNCHANGED <<inputVars, procs, printed, exit_code>>

\* line 260
PrintBlank ==
    /\ pc = "print"
    /\ printed' = Append(printed, Show("text", <<NL>>))
    /\ pc' = "classify"
    /\ UNCHANGED <<inputVars, poolVars, collectVars, reportVars, summVars,
                   exit_code>>

\* lines 261-264: summary.startswith raises AttributeError when summary is
\* None; Markdown(summary) is printed as it is; console.print(summary)
\* renders the text as markup, which raises MarkupError on a closing tag
\* that closes nothing.
PrintSummary ==
    /\ pc = "classify"
    /\ IF summary = None
       THEN Crashed
       ELSE LET branch == SummaryBranch(summary) IN
            IF branch = "markdown"
            THEN /\ printed' = Append(printed, Show("markdown", summary))
                 /\ pc' = "complete"
                 /\ UNCHANGED <<inputVars, poolVars, collectVars, reportVars,
                                summVars, exit_code>>
            ELSE IF MarkupFails(summary)
            THEN Crashed
            ELSE /\ printed' = Append(printed, Show("text", summary))
                 /\ pc' = "fallback"
                 /\ UNCHANGED <<inputVars, poolVars, collectVars, reportVars,
                                summVars, exit_code>>

\* line 266: the panel renders the report as markup
PrintRawOutput ==
    /\ pc = "fallback"
    /\ IF MarkupFails(update_output)
       THEN Crashed
       ELSE /\ printed' = Append(printed,
                             Show("raw output panel", update_output))
            /\ pc' = "complete"
            /\ UNCHANGED <<inputVars, poolVars, collectVars, reportVars,
                           summVars, exit_code>>

\* line 268, and main returns: its frames are gone, the interpreter
\* starts to shut down with signal_handler still installed.
PrintCompleted ==
    /\ pc = "complete"
    /\ printed' = Append(printed, Show("text", <<NL, "All tasks completed!">>))
    /\ FreshMain
    /\ PoolGone
    /\ pc' = "returned"
    /\ UNCHANGED <<inputVars, procs, exit_code>>

\* The interpreter has shut down and the process ends: with status 0 after
\* main returned, with status 1 after SystemExit(1) or an uncaught
\* exception.
ProcessEnd ==
    /\ pc \in {"returned", "exiting", "crashing"}
    /\ FreshMain
    /\ CASE pc = "returned" -> Exited("done", 0)
         [] pc = "exiting" -> Exited("exited", 1)
         [] pc = "crashing" -> Exited("crashed", 1)
    /\ UNCHANGED <<inputVars, procs, printed>>

\* SIGINT while signal_handler is not installed: before line 252
\* KeyboardInterrupt is raised, at the very end of the shutdown of the
\* interpreter the handlers are the defaults again; either way nothing is
\* printed and the process is ended by the signal (status -2).
SigintDefault ==
    /\ pc \in {"boot", "returned", "exiting", "crashing"}
    /\ FreshMain
    /\ Exited("killed", -2)
    /\ UNCHANGED <<inputVars, procs, printed>>

\* The SIGINTs signal_handler has handled: each has printed its message.
Sigints ==
    Cardinality({ k \in 1..Len(printed) :
                    printed[k] = Show("text", InterruptedMessage) })

\* SIGINT: signal_handler prints its message and raises SystemExit(1) in
\* the main thread, which abandons the frames of run_all_updates,
\* generate_summary and main; the interpreter then shuts down.  Inside the
\* with block of the executor the exception first runs shutdown(wait=True),
\* which joins the workers.  The handler stays installed: a SIGINT that
\* arrives during that wait leaves it, after which the interpreter either
\* shuts down at once or waits for the worker threads itself, and a SIGINT
\* during this last wait ends the wait.  The worker threads are not
\* stopped by any of this: they go on taking work items and starting
\* commands until the process has ended, and the commands are left
\* running.  A SIGINT during the shutdown of the interpreter prints the
\* message again; its SystemExit is ignored there, unless it lands right at
\* the return of main, where it makes the status 1.
Interrupt ==
    /\ pc \notin {"boot", "done", "exited", "crashed", "killed"}
    /\ Sigints < MaxSigints
    /\ printed' = Append(printed, Show("text", InterruptedMessage))
    /\ FreshMain
    /\ \/ /\ pc \in {"submit", "adjust", "record", "collect"}
          /\ pc' = "unwinding"
          /\ idle' = 0
          /\ announced' = 0
          /\ UNCHANGED <<fstate, fresult, procs, ran, nthreads, calls>>
       \/ /\ pc = "unwinding"
          /\ pc' \in {"finalizing", "exiting"}
          /\ UNCHANGED poolVars
       \/ /\ pc = "finalizing"
          /\ pc' = "exiting"
          /\ UNCHANGED poolVars
       \/ /\ pc = "returned"
          /\ pc' \in {"returned", "exiting"}
          /\ UNCHANGED poolVars
       \/ /\ pc \in {"exiting", "crashing"}
          /\ pc' = pc
          /\ UNCHANGED poolVars
       \/ /\ pc \notin {"submit", "adjust", "record", "collect", "unwinding",
                         "finalizing", "returned", "exiting", "crashing"}
          /\ Leaving("exiting")
          /\ UNCHANGED procs
    /\ UNCHANGED <<inputVars, exit_code>>

\* The wait for the worker threads returns once every worker thread has
\* ended: the workers have run every work item of the queue, or no worker
\* thread was ever started.  SystemExit(1) then leaves main.
Unwound ==
    /\ pc \in {"unwinding", "finalizing"}
    /\ Running = {}
    /\ Queued = {} \/ nthreads = 0
    /\ Leaving("exiting")
    /\ UNCHANGED <<inputVars, procs, collectVars, reportVars, summVars,
                   mainVars>>

(***************************************************************************)
(* Specifications                                                          *)
(***************************************************************************)
InitWith(lists, envs) ==
    /\ tasks \in lists
    /\ environ \in envs
    /\ pc = "boot"
    /\ fstate = [i \in 1..Len(tasks) |-> "new"]
    /\ fresult = [i \in 1..Len(tasks) |-> NoResult]
    /\ procs = [i \in 1..Len(tasks) |-> {}]
    /\ ran = [i \in 1..Len(tasks) |-> NotRun]
    /\ nthreads = 0
    /\ idle = 0
    /\ announced = 0
    /\ calls = [i \in 1..Len(tasks) |-> 0]
    /\ futures = <<>>
    /\ results = <<>>
    /\ inserting = {}
    /\ inserted = <<>>
    /\ yielded = {}
    /\ reordered = FALSE
    /\ advanced = 0
    /\ report = <<>>
    /\ update_output = <<>>
    /\ attempt = 0
    /\ last_error = "Unknown error"
    /\ log = <<>>
    /\ sleeps = 0
    /\ summary = <<>>
    /\ printed = <<>>
    /\ exit_code = -1

Init == InitWith(TaskLists, { Environs[k] : k \in 1..Len(Environs) })

Next ==
    \/ InstallHandler
    \/ MainStart
    \/ SubmitPut
    \/ SubmitAdjust
    \/ SubmitRecord
    \/ StartCollect
    \/ WorkerTake
    \/ \E i \in 1..N : WorkerSpawn(i)
    \/ WorkerIdle
    \/ \E i \in 1..N : WorkerFinish(i)
    \/ \E i \in 1..N : ProcessExit(i)
    \/ \E i \in 1..N : TakeCompleted(i)
    \/ \E i \in 1..N : Collect(i)
    \/ Shutdown
    \/ BuildReport
    \/ GenerateSummary
    \/ Attempt
    \/ Sleep
    \/ GiveUp
    \/ PrintBlank
    \/ PrintSummary
    \/ PrintRawOutput
    \/ PrintCompleted
    \/ ProcessEnd
    \/ Interrupt
    \/ SigintDefault
    \/ Unwound

Spec == Init /\ [][Next]_vars

\* The same program on task lists longer than the worker bound, with the
\* API key set.
InitPool == InitWith(SleeperLists, { Environs[3] })

SpecPool == InitPool /\ [][Next]_vars

\* A run in which no SIGINT arrives.  The main thread and the worker
\* threads are scheduled by the operating system, and each goes on when it
\* can: a queued work item is taken by a free worker, a spawned command
\* exits or is stopped by its timeout, urlopen returns or raises within its
\* own timeout, and time.sleep(1) returns.  Nothing makes a process that
\* outlived its command end.
MainStep ==
    \/ InstallHandler
    \/ MainStart
    \/ SubmitPut
    \/ SubmitAdjust
    \/ SubmitRecord
    \/ StartCollect
    \/ \E i \in 1..N : TakeCompleted(i)
    \/ \E i \in 1..N : Collect(i)
    \/ Shutdown
    \/ BuildReport
    \/ GenerateSummary
    \/ Attempt
    \/ Sleep
    \/ GiveUp
    \/ PrintBlank
    \/ PrintSummary
    \/ PrintRawOutput
    \/ PrintCompleted
    \/ ProcessEnd

WorkerStep ==
    \/ WorkerTake
    \/ \E i \in 1..N : WorkerSpawn(i)
    \/ WorkerIdle
    \/ \E i \in 1..N : WorkerFinish(i)

NextUninterrupted ==
    \/ MainStep
    \/ WorkerStep
    \/ \E i \in 1..N : ProcessExit(i)

SpecLive ==
    /\ Init
    /\ [][NextUninterrupted]_vars
    /\ WF_vars(MainStep)
    /\ WF_vars(WorkerStep)

(***************************************************************************)
(* Properties                                                              *)
(***************************************************************************)
IsEntryHead(l) ==
    Len(l) = 4 /\ l[1] \in {CHECK, CROSS} /\ l[2] = SP /\ l[4] = ":"

\* The descs of the entries of a report, in the order they appear in it.
EntryDescs(lines) ==
    LET heads == SelectSeq(lines, IsEntryHead)
    IN  [j \in 1..Len(heads) |-> heads[j][3]]

TaskDescs == [i \in 1..N |-> tasks[i].desc]

\* The credential variable is unset or empty / is set.
KeyUnset ==
    \/ "GEMINI_API_KEY" \notin DOMAIN environ
    \/ environ["GEMINI_API_KEY"] = ""
KeySet == ~KeyUnset

\* C1: once the report is built it holds exactly one entry per task of the
\* input list, and the entries stand in the order of the input list,
\* whatever order the tasks completed in.
C1_ReportInInputOrder ==
    report # <<>> => EntryDescs(report) = TaskDescs

\* C1 witness: a report of two tasks that were collected out of order.
C1_Witness ==
    /\ report # <<>>
    /\ N >= 2
    /\ reordered

\* C2: at no time are more than MAX_WORKERS (6) run_command calls in
\* progress, also when more tasks than workers are submitted.
C2_AtMostWInFlight == Cardinality(Running) <= 6

\* C2 witness: six commands run while a seventh task waits in the queue.
C2_Witness ==
    /\ N > 6
    /\ Cardinality(Running) = 6
    /\ Queued # {}

\* What the command of task i alone determines.
OwnSuccess(i) ==
    /\ ~RaisesEarly(tasks[i])
    /\ ran[i].kind = "exit"
    /\ ran[i].rc = 0
    /\ Decodable(ran[i].stdout) /\ Decodable(ran[i].stderr)

OwnOutcome(i) == CollectedOutcome(run_command(tasks[i], ran[i]))

\* C3: when the report is built every task has been executed, and the
\* entry recorded for each task is the one its own command result
\* determines, whatever happened to the other tasks.
C3_FailureIsolation ==
    report # <<>> =>
        \A i \in 1..N :
            /\ fstate[i] = "finished"
            /\ RaisesEarly(tasks[i]) \/ ran[i] # NotRun
            /\ HasItem(results, tasks[i].desc)
            /\ GetItem(results, tasks[i].desc).success = OwnSuccess(i)
            /\ GetItem(results, tasks[i].desc) = OwnOutcome(i)

\* C3 witness: a report of two tasks of which the first one collected
\* failed by raising or timing out and the other exited with code 0.
C3_Witness ==
    /\ report # <<>>
    /\ N = 2
    /\ \E i, j \in 1..N :
          /\ i # j
          /\ RaisesEarly(tasks[i]) \/ ran[i].kind = "timeout"
          /\ OwnSuccess(j)
          /\ GetItem(results, tasks[j].desc).success

\* C4: for a task that has a command, run_command returns and does not
\* raise; the outcome is a success only when the command exited with code
\* 0, and every failure gives success=false with an output that names its
\* category: the timeout message for a timeout, the execution-failed
\* message with the error for a command that could not be executed, and
\* the captured stderr for a command that exited nonzero.
C4_RunnerNeverRaises ==
    \A i \in 1..N :
        (fstate[i] = "finished" /\ ~RaisesEarly(tasks[i])) =>
            /\ ~fresult[i].raised
            /\ ran[i].kind \in {"exit", "timeout", "oserror"}
            /\ fresult[i].success => (ran[i].kind = "exit" /\ ran[i].rc = 0)
            /\ ran[i].kind = "timeout" =>
                  /\ ~fresult[i].success
                  /\ StartsWith(fresult[i].output, CROSS)
                  /\ Contains(fresult[i].output, <<" Timed out after 300s">>)
            /\ ran[i].kind = "oserror" =>
                  /\ ~fresult[i].success
                  /\ StartsWith(fresult[i].output, CROSS)
                  /\ Contains(fresult[i].output,
                              <<" Execution failed: ", ran[i].msg>>)
            /\ (ran[i].kind = "exit" /\ ran[i].rc # 0) =>
                  /\ ~fresult[i].success
                  /\ Contains(fresult[i].output, Strip(ran[i].stderr))

\* C5: after run_command has returned the timeout outcome of a task, no
\* process spawned for that task is still running.
C5_NoOrphanAfterTimeout ==
    \A i \in 1..N :
        (fstate[i] = "finished" /\ ran[i].kind = "timeout") => procs[i] = {}

NoReturnIn(l) == \A j \in 1..Len(l) : l[j].result # "return"

\* C6: with the credential set, at most 3 requests are made, no request
\* follows one that returned, a reply that met the contract is returned as
\* the summary, and the failure message is returned exactly when 3 requests
\* were made and none of them returned.
C6_BoundedRetry ==
    /\ Len(log) <= 3
    /\ \A j \in 1..(Len(log) - 1) : log[j].result # "return"
    /\ pc \in {"attempt", "sleep"} => NoReturnIn(log)
    /\ (pc = "print" /\ KeySet) =>
          /\ log # <<>>
          /\ IF log[Len(log)].result = "return"
             THEN log[Len(log)].conforms => summary = log[Len(log)].served
             ELSE /\ Len(log) = 3
                  /\ summary = <<CROSS, " Failed to generate summary: ",
                                 last_error>>

\* C6 witness: two failed requests, then a third that succeeds.
C6_Witness ==
    /\ pc = "print"
    /\ Len(log) = 3
    /\ log[1].result = "raise"
    /\ log[2].result = "raise"
    /\ log[3].result = "return"
    /\ log[3].conforms
    /\ summary = <<"Summary">>
    /\ sleeps = 2

\* C7: when no request got a reply that meets the wire contract,
\* generate_summary returns its failure result.
C7_DeviationIsFailure ==
    (pc = "print" /\ KeySet /\ \A j \in 1..Len(log) : ~log[j].conforms) =>
        summary = <<CROSS, " Failed to generate summary: ", last_error>>

\* C8: with the credential unset or empty no request and no sleep is ever
\* made, generate_summary returns the missing-key failure, and the report
\* is the one run_all_updates built.
C8_MissingKeyFailsAtOnce ==
    KeyUnset =>
        /\ log = <<>>
        /\ sleeps = 0
        /\ pc \notin {"attempt", "sleep"}
        /\ pc = "print" =>
              /\ summary = <<CROSS, " Error: GEMINI_API_KEY environment variable is not set">>
              /\ report # <<>>
              /\ EntryDescs(report) = TaskDescs
              /\ update_output = JoinLines(report)

\* C8 witness: generate_summary has returned with the variable set to the
\* empty string.
C8_Witness ==
    /\ pc = "print"
    /\ "GEMINI_API_KEY" \in DOMAIN environ
    /\ KeyUnset
    /\ StartsWith(summary, CROSS)
    /\ N >= 1

SummarizationFailed ==
    \/ KeyUnset
    \/ Len(log) = 3 /\ NoReturnIn(log)

\* C9: when summarization has failed, no print of main raises, main can
\* always go on with its next print, and when its last print is done it
\* has printed the failure message, then the full raw report, then the
\* completion line, after which the process can end (with status 0).
C9_FallbackOnFailure ==
    /\ [][(pc \in {"print", "classify", "fallback", "complete"}
            /\ SummarizationFailed) => pc' \notin {"crashing", "crashed"}]_vars
    /\ [](pc \in {"print", "classify", "fallback", "complete"} =>
            ENABLED (PrintBlank \/ PrintSummary \/ PrintRawOutput
                       \/ PrintCompleted))
    /\ [](pc = "returned" => ENABLED ProcessEnd)
    /\ [][(pc = "complete" /\ pc' = "returned" /\ SummarizationFailed) =>
             /\ StartsWith(summary, CROSS)
             /\ update_output = JoinLines(report)
             /\ report # <<>>
             /\ printed' = << Show("text", <<NL>>),
                              Show("text", summary),
                              Show("raw output panel", update_output),
                              Show("text", <<NL, "All tasks completed!">>) >>
          ]_vars

\* C10: whenever a request to the summarizer is being made or has been
\* made, every task has completed and been collected, no command is in
\* flight or queued, and the report has been assembled.
C10_SummarizerAfterDispatcher ==
    (pc \in {"attempt", "sleep"} \/ log # <<>>) =>
        /\ Running = {} /\ Queued = {}
        /\ \A i \in 1..N : fstate[i] = "finished"
        /\ yielded = 1..N
        /\ report # <<>>
        /\ update_output = JoinLines(report)

\* C10 witness: a second request is about to be made after a run of two
\* tasks.
C10_Witness ==
    /\ pc = "attempt"
    /\ Len(log) >= 1
    /\ N = 2

\* C11: after an interrupt the process stops waiting and ends with a
\* nonzero status: while it has not exited yet, its exit is possible at
\* once, whether or not commands are still queued or running.
C11_InterruptExitsPromptly ==
    /\ pc = "unwinding" => ENABLED Unwound
    /\ pc = "exited" => exit_code # 0

\* The text of a report as the task list, the outcome of each task's own
\* command and the measured total time determine it.
RefEntryText(i) ==
    LET o == OwnOutcome(i) IN
        <<NL, (IF o.success THEN CHECK ELSE CROSS), SP, tasks[i].desc, ":",
          NL, "-*len", tasks[i].desc, NL>>
        \o (IF Strip(o.output) # <<>> THEN o.output ELSE <<"(No output)">>)
        \o (IF ~o.success THEN <<NL, WARN, " Command failed">> ELSE <<>>)
        \o <<NL>>

RECURSIVE RefEntriesText(_)
RefEntriesText(k) ==
    IF k = 0 THEN <<>> ELSE RefEntriesText(k - 1) \o RefEntryText(k)

RefText(total) ==
    <<"SYSTEM UPDATE REPORT", NL, "=*60", NL,
      "Total execution time: ", total, " seconds", NL>>
    \o RefEntriesText(N)

\* C12 (as claimed): the report text depends on nothing but the task list
\* and the per-task results: it is the same text whatever total time the
\* run measured and whatever order the tasks completed in.
C12_ReportDeterministic ==
    report # <<>> => \A total \in ElapsedTexts : update_output = RefText(total)

\* C12 (amended): the report text is determined by the task list, the
\* per-task results and the formatted total execution time of the run; the
\* order of completion has no influence on it.
C12_ReportDeterministicUpToTime ==
    report # <<>> => \E total \in ElapsedTexts : update_output = RefText(total)

\* C12 witness: a report of two tasks collected out of order, one of them
\* timed out, built by a run that measured the longer total time.
C12_Witness ==
    /\ report # <<>>
    /\ N = 2
    /\ reordered
    /\ \E i \in 1..N : ran[i].kind = "timeout"
    /\ Contains(update_output, <<"Total execution time: ", "0.2">>)

\* t is s without the whitespace at its two ends: what was cut off on
\* either side is whitespace, and t neither starts nor ends with any.
IsTrimOf(t, s) ==
    \E a, b \in 0..Len(s) :
        /\ a + b <= Len(s)
        /\ t = [k \in 1..(Len(s) - a - b) |-> s[a + k]]
        /\ \A k \in 1..a : IsSpace(s[k])
        /\ \A k \in (Len(s) - b + 1)..Len(s) : IsSpace(s[k])
        /\ t # <<>> => ~IsSpace(t[1]) /\ ~IsSpace(t[Len(t)])

\* text is the trimmed combination of the two streams of task i, with or
\* without a line break between them.
IsTrimmedCapture(text, i) ==
    \/ IsTrimOf(text, ran[i].stdout \o ran[i].stderr)
    \/ IsTrimOf(text, ran[i].stdout \o <<NL>> \o ran[i].stderr)

PrintedNothing(i) ==
    /\ \A k \in 1..Len(ran[i].stdout) : IsSpace(ran[i].stdout[k])
    /\ \A k \in 1..Len(ran[i].stderr) : IsSpace(ran[i].stderr[k])

RanToExit(i) ==
    /\ fstate[i] = "finished"
    /\ ~RaisesEarly(tasks[i])
    /\ ran[i].kind = "exit"

\* C13: the output of the outcome run_command returns for a command that
\* exited is the trimmed combination of its stdout and stderr, and a
\* sentinel text, never an empty value, when the command printed nothing
\* or only whitespace.
C13_TrimmedOrSentinel ==
    \A i \in 1..N :
        RanToExit(i) =>
            /\ ~fresult[i].raised
            /\ IF PrintedNothing(i)
               THEN fresult[i].output # <<>>
               ELSE IsTrimmedCapture(fresult[i].output, i)

\* C14: when future.result() raised for a task, the loop has recorded a
\* failing outcome whose text names the exception under the identifier of
\* that task, the loop goes on to collect every other completed future,
\* and the report holds one entry per task, the one of that task marked as
\* failed.
C14_WorkerExceptionRecorded ==
    \A i \in 1..N :
        (fstate[i] = "finished" /\ fresult[i].raised /\ i \in yielded) =>
            /\ HasItem(results, tasks[i].desc)
            /\ GetItem(results, tasks[i].desc).success = FALSE
            /\ GetItem(results, tasks[i].desc).output =
                  <<"Exception: ", fresult[i].exc>>
            /\ fresult[i].exc \notin {"", "pending"}
            /\ \A j \in 1..N :
                  (pc = "collect" /\ fstate[j] = "finished" /\ j \notin yielded)
                      => /\ inserting = {} => ENABLED TakeCompleted(j)
                         /\ j \in inserting => ENABLED Collect(j)
            /\ report # <<>> =>
                  /\ EntryDescs(report) = TaskDescs
                  /\ <<CROSS, SP, tasks[i].desc, ":">> \in
                        { report[k] : k \in 1..Len(report) }

\* C14 witness: a report of two tasks; future.result() raised KeyError for
\* the first one, which was collected before the second, and the second
\* succeeded.
C14_Witness ==
    /\ report # <<>>
    /\ N = 2
    /\ ~reordered
    /\ fresult[1].raised
    /\ GetItem(results, tasks[1].desc) =
          [success |-> FALSE, output |-> <<"Exception: ", "'cmd'">>]
    /\ OwnSuccess(2)
    /\ GetItem(results, tasks[2].desc).success

\* C15: a task whose command could not be started (its binary is missing,
\* or the shell cannot be executed) gets the execution-error outcome, which
\* differs in form from the outcome of a command that started and exited
\* nonzero and from the timeout outcome, in both execution modes.
C15_NotStartedIsExecutionError ==
    \A i \in 1..N :
        (fstate[i] = "finished" /\ ~RaisesEarly(tasks[i])) =>
            /\ CommandNotStarted(ran[i]) =>
                  /\ ~fresult[i].success
                  /\ IsPrefix(<<CROSS, " Execution failed: ">>, fresult[i].output)
            /\ (ran[i].kind = "exit" /\ ~CommandNotStarted(ran[i])) =>
                  ~StartsWith(fresult[i].output, CROSS)
            /\ ran[i].kind = "timeout" =>
                  fresult[i].output = <<CROSS, " Timed out after 300s">>

\* C16: in every interleaving of the worker threads and the collecting
\* loop at most one insertion into results is under way at a time, and
\* every outcome inserted stays in results with the value it was inserted
\* with, up to and including the assembly of the report.
C16_InsertionsExclusive ==
    /\ Cardinality(inserting) <= 1
    /\ \A k \in DOMAIN inserted :
          /\ HasItem(results, k)
          /\ \A j \in 1..Len(inserted[k]) : GetItem(results, k) = inserted[k][j]
    /\ report # <<>> => DOMAIN inserted = { tasks[i].desc : i \in 1..N }

\* C16 witness: the loop is inserting the outcome of one task while worker
\* threads run the commands of other tasks and two outcomes are in results
\* already.
C16_Witness ==
    /\ Cardinality(inserting) = 1
    /\ Cardinality(Running) >= 2
    /\ Cardinality(DOMAIN inserted) >= 2
    /\ \A k \in DOMAIN inserted : HasItem(results, k)

\* C17: whenever another request is about to be made, one sleep has been
\* taken after each of the failed requests before it, whether it failed by
\* an exception or by a status other than 200; and when a request has
\* succeeded no sleep was taken after it.
C17_OneDelayBetweenAttempts ==
    /\ (pc = "attempt" /\ Len(log) < 3) => sleeps = Len(log)
    /\ (pc = "print" /\ log # <<>> /\ log[Len(log)].result = "return") =>
          sleeps = Len(log) - 1

\* C18: run_command is called at most once for each task and exactly once
\* by the time the report is built; each key of results is stored at most
\* once, exactly once for every task by the time the report is built; and
\* no step changes an entry that results holds.
C18_ExactlyOnce ==
    /\ [](/\ \A i \in 1..N : calls[i] <= 1
          /\ \A k \in DOMAIN inserted : Len(inserted[k]) = 1
          /\ report # <<>> =>
                /\ \A i \in 1..N : calls[i] = 1
                /\ \A i \in 1..N :
                      /\ tasks[i].desc \in DOMAIN inserted
                      /\ Len(inserted[tasks[i].desc]) = 1)
    /\ [][\A k \in DOMAIN results :
             k \in DOMAIN results' => results'[k] = results[k]]_vars

\* C18 witness: a report of two tasks, one of which failed with a nonzero
\* exit and the other timed out; each was run once and stored once.
C18_Witness ==
    /\ report # <<>>
    /\ N = 2
    /\ calls = <<1, 1>>
    /\ \E i, j \in 1..N :
          /\ ran[i].kind = "exit" /\ ran[i].rc = 1
          /\ ran[j].kind = "timeout"
          /\ Len(inserted[tasks[i].desc]) = 1
          /\ Len(inserted[tasks[j].desc]) = 1

\* C19: in a run without an interrupt in which every command exits or is
\* timed out, the dispatcher eventually returns the report, every task
\* having been started once and completed by then; it leaves only when all
\* tasks have completed and can leave as soon as all have been collected;
\* and the run eventually completes with status 0, after at most 3
\* requests to the summarizer.
C19_EventuallyCompletes ==
    /\ <>(/\ pc = "summarize"
          /\ report # <<>>
          /\ \A i \in 1..N : fstate[i] = "finished" /\ calls[i] = 1
          /\ <>(pc = "done" /\ exit_code = 0))
    /\ [](pc = "report" => \A i \in 1..N : fstate[i] = "finished")
    /\ []((pc = "collect" /\ yielded = Submitted) => ENABLED Shutdown)
    /\ [](Len(log) <= 3)

\* generate_summary returned the text of a reply / returned a failure.
SummaryObtained == log # <<>> /\ log[Len(log)].result = "return"

\* C20: when the last print of main completes the run, main has rendered
\* the returned text as the summary, without the raw report, exactly when
\* generate_summary got a successful reply, and has printed the text
\* followed by the raw report exactly when generate_summary failed,
\* whatever text the service sent.
C20_ClassifiedBySuccess ==
    [][(pc = "complete" /\ pc' = "returned") =>
          /\ SummaryObtained <=>
                printed' = << Show("text", <<NL>>),
                              Show("markdown", summary),
                              Show("text", <<NL, "All tasks completed!">>) >>
          /\ ~SummaryObtained <=>
                printed' = << Show("text", <<NL>>),
                              Show("text", summary),
                              Show("raw output panel", update_output),
                              Show("text", <<NL, "All tasks completed!">>) >>
      ]_vars

====
